---- MODULE Spec2Model ----
(***************************************************************************)
(* Model of src/server.js: the Ether0 proxy.  One warm-up task launches   *)
(* and pre-navigates a shared browser; every POST /ask request validates   *)
(* its question, opens an event stream, acquires a page (getPage), drives  *)
(* the upstream UI, polls the answer region and relays text deltas until   *)
(* the accumulated text holds a **...** token, then writes the answer.     *)
(*                                                                         *)
(* JavaScript runs one continuation at a time, so one action is the code   *)
(* that runs from the resumption of one await to the next await.  pc[r]    *)
(* names the browser call request r is waiting for; wpc does the same for  *)
(* the warm-up task.  A browser call that rejects is a separate action.    *)
(* Texts are sequences of one-character strings.                           *)
(***************************************************************************)
EXTENDS Integers, Sequences, FiniteSets, TLC

VARIABLES
    wpc,          \* warm-up task: the call it awaits, or "timer"/"ready"/"failed"
    warmBrowser,  \* let warmBrowser: {} is null, {b} is the browser handle
    warmReady,    \* let warmReady
    warmPage,     \* the page of warmUp (const page): <<>> before it exists
    browsers,     \* every browser process: "none", "open" or "closed"
    closes,       \* how many times close() was called on each browser
    pc,           \* per request: the call it awaits, or idle/rejected/ended
    question,     \* per request: req.body.question
    res,          \* per request: the response: none/400/open/ended
    page,         \* per request: let page (<<>> is null, <<p>> a page)
    events,       \* per request: the events written with send(), in order
    full,         \* per request: let full
    prev,         \* per request: let prev
    launches,     \* per request: calls of launchBrowser() made by its getPage
    warmFailed,   \* per request: its getPage caught a warm-reuse failure
    thrown,       \* per request: the exceptions that reached the handler's catch
    appendOnly,   \* per request: every successful read so far extended prev
    upstream,     \* per request: the text the answer region shows upstream
    routes,       \* per page: the handler page.route installed ({} is none)
    outbound      \* the outbound request last intercepted (<<>> is none)

vars == <<wpc, warmBrowser, warmReady, warmPage, browsers, closes, pc, question,
          res, page, events, full, prev, launches, warmFailed, thrown,
          appendOnly, upstream, routes, outbound>>

warmVars == <<wpc, warmBrowser, warmReady, warmPage>>
scrapeVars == <<full, prev, appendOnly>>

----------------------------------------------------------------------------
(* Bounds *)

NumReqs == 2        \* requests (each may be in flight with the others)
MaxLen == 5         \* longest text the answer region shows

Reqs == 1..NumReqs

(* The warm browser's identity; request r's fallback browser is r. *)
WarmId == 0
BrowserIds == {WarmId} \cup Reqs

(* The pages: the page of warmUp, and the page of each request. *)
PageIds == {WarmId} \cup Reqs

Alphabet == {"a", "*"}
Whitespace == {" "}

RECURSIVE SeqsUpTo(_, _)
SeqsUpTo(S, n) ==
    IF n = 0 THEN {<<>>}
    ELSE LET shorter == SeqsUpTo(S, n - 1)
         IN  shorter \cup {Append(s, c) : s \in {t \in shorter : Len(t) = n - 1}, c \in S}

(* Every text of the answer region, up to MaxLen. *)
Texts == SeqsUpTo(Alphabet, MaxLen)

(* The texts the concurrent specification reads: plain text and a token.   *)
(* (Read after "a", the token gives the delta "*a**" and the accumulated   *)
(* text "a*a**", which has no match.)                                      *)
SampleTexts ==
    { <<"a">>, <<"*", "*", "a", "*", "*">> }

(* req.body.question: absent, empty, blank, or a question. *)
Missing == <<"undefined">>
Questions == { Missing, <<>>, <<" ">>, <<"q">> }

----------------------------------------------------------------------------
(* Pure functions *)

IsPrefix(p, s) == Len(p) <= Len(s) /\ SubSeq(s, 1, Len(p)) = p

(* String.prototype.trim *)
RECURSIVE TrimLeft(_)
TrimLeft(s) ==
    IF s # <<>> /\ Head(s) \in Whitespace THEN TrimLeft(Tail(s)) ELSE s

RECURSIVE TrimRight(_)
TrimRight(s) ==
    IF s # <<>> /\ s[Len(s)] \in Whitespace
    THEN TrimRight(SubSeq(s, 1, Len(s) - 1))
    ELSE s

Trim(s) == TrimRight(TrimLeft(s))

(* Fault: the question is tested without trim(): !question *)
QuestionMissingNoTrim(q) == q = Missing \/ q = <<>>

(* !question?.trim() : no question, or one that trims to the empty string *)
QuestionMissing(q) == q = Missing \/ Trim(q) = <<>>

(* /\*\*[^*]+\*\*/ matches s with its first asterisk at i and the closing  *)
(* pair at j, j+1.                                                        *)
MatchAt(s, i, j) ==
    /\ i >= 1 /\ j >= i + 3 /\ j + 1 <= Len(s)
    /\ s[i] = "*" /\ s[i + 1] = "*"
    /\ \A k \in (i + 2)..(j - 1) : s[k] # "*"
    /\ s[j] = "*" /\ s[j + 1] = "*"

(* /\*\*[^*]+\*\*/.test(s) *)
HasMatch(s) == \E i \in 1..Len(s), j \in 1..Len(s) : MatchAt(s, i, j)

(* s.match(/\*\*([^*]+)\*\*/)[1] : the group of the leftmost match *)
MatchGroup(s) ==
    LET i == CHOOSE a \in 1..Len(s) :
                 /\ \E j \in 1..Len(s) : MatchAt(s, a, j)
                 /\ \A b \in 1..(a - 1) : ~ \E j \in 1..Len(s) : MatchAt(s, b, j)
        j == CHOOSE b \in 1..Len(s) : MatchAt(s, i, b)
    IN  SubSeq(s, i + 2, j - 1)

(* const smiles = match ? match[1].trim() : null   (<<>> is null or "") *)
Smiles(s) == IF HasMatch(s) THEN Trim(MatchGroup(s)) ELSE <<>>

NoSmilesFound ==
    <<"N", "o", " ", "S", "M", "I", "L", "E", "S", " ", "f", "o", "u", "n", "d">>

(* Fault: txt && txt.length >= prev.length *)
GrowsOrEqual(txt, prv) == txt # <<>> /\ Len(txt) >= Len(prv)

(* txt && txt.length > prev.length *)
Grows(txt, prv) == txt # <<>> /\ Len(txt) > Len(prv)

(* Fault: the whole text is taken as the delta (no slice) *)
DeltaWhole(txt, prv) == txt

(* txt.slice(prev.length) *)
Delta(txt, prv) == SubSeq(txt, Len(prv) + 1, Len(txt))

(* Fault: full = delta *)
AccumulateReplace(f, delta) == delta

(* full += delta *)
Accumulate(f, delta) == f \o delta

----------------------------------------------------------------------------
(* Events *)

ReasoningEv(d) == [type |-> "reasoning", content |-> d]
AnswerEv(c) == [type |-> "answer", content |-> c]
ErrorEv(m) == [type |-> "error", message |-> m]
DoneEv == [type |-> "done"]

(* const html: the fragment is one fixed template around the embedded      *)
(* value: it loads the drawing library, makes a container, and carries a   *)
(* script holding both branches.  elements: the elements of the template's *)
(* markup, in order (the wrapper, the library's script, the container,     *)
(* the inline script).  (The container id, "smiles-" + Date.now(), is left *)
(* out.)                                                                   *)
Html(smiles) ==
    [ library |-> "smiles-drawer@2.0.1",
      elements |-> <<"div", "script", "div", "script">>,
      smiles |-> smiles,
      script |-> "isReaction ? svg : img" ]

(* The element the fragment's script appends when it runs in the caller's  *)
(* browser: smiles.includes(">") ? svg : img                               *)
RenderTarget(html) ==
    IF \E k \in 1..Len(html.smiles) : html.smiles[k] = ">" THEN "svg" ELSE "img"

StructureEv(s) == [type |-> "structure", smiles |-> s, html |-> Html(s)]

(* Fault: the structure event is written before the answer. *)
SuccessEventsStructureFirst(f) ==
    LET smiles == Smiles(f)
    IN  (IF smiles # <<>> THEN <<StructureEv(smiles)>> ELSE <<>>)
        \o <<AnswerEv(IF smiles # <<>> THEN smiles ELSE NoSmilesFound)>>
        \o <<DoneEv>>

(* What the handler writes once the loop has ended with the text f. *)
SuccessEvents(f) ==
    LET smiles == Smiles(f)
    IN  <<AnswerEv(IF smiles # <<>> THEN smiles ELSE NoSmilesFound)>>
        \o (IF smiles # <<>> THEN <<StructureEv(smiles)>> ELSE <<>>)
        \o <<DoneEv>>

(* Fault: the catch block logs and writes nothing. *)
CatchEventsSwallow(m) == <<>>

(* What the catch block writes for an exception with message m. *)
CatchEvents(m) == <<ErrorEv(m)>>

----------------------------------------------------------------------------
(* Browsers, contexts and pages *)

(* browser.newContext() then context.newPage(): a context is a new object  *)
(* of browser b, made by the call of request r (0: the warm-up task); the  *)
(* page is the one page of that context.                                   *)
NewPage(b, r) == [ctx |-> [browser |-> b, by |-> r], tempBrowser |-> {}]

(* Fault: the warm path hands out the page made by warmUp. *)
WarmPageReused(r) == warmPage[1]

(* Fault: the warm path tags its page with the warm browser for cleanup. *)
WarmPageTagged(r) == [NewPage(WarmId, r) EXCEPT !.tempBrowser = {WarmId}]

(* getPage, warm path: return await context.newPage() *)
WarmPageFor(r) == NewPage(WarmId, r)

(* getPage, fallback path: page._tempBrowser = browser; return page *)
FreshPageFor(r) == [NewPage(r, r) EXCEPT !.tempBrowser = {r}]

(* finally: if (page && page._tempBrowser) *)
MustClose(pg) == pg # <<>> /\ pg[1].tempBrowser # {}

----------------------------------------------------------------------------
(* Initial state: the module has been loaded, the timer is set. *)

Init ==
    /\ wpc = "timer"
    /\ warmBrowser = {}
    /\ warmReady = FALSE
    /\ warmPage = <<>>
    /\ browsers = [b \in BrowserIds |-> "none"]
    /\ closes = [b \in BrowserIds |-> 0]
    /\ pc = [r \in Reqs |-> "idle"]
    /\ question = [r \in Reqs |-> Missing]
    /\ res = [r \in Reqs |-> "none"]
    /\ page = [r \in Reqs |-> <<>>]
    /\ events = [r \in Reqs |-> <<>>]
    /\ full = [r \in Reqs |-> <<>>]
    /\ prev = [r \in Reqs |-> <<>>]
    /\ launches = [r \in Reqs |-> 0]
    /\ warmFailed = [r \in Reqs |-> FALSE]
    /\ thrown = [r \in Reqs |-> <<>>]
    /\ appendOnly = [r \in Reqs |-> TRUE]
    /\ upstream = [r \in Reqs |-> <<>>]
    /\ routes = [p \in PageIds |-> {}]
    /\ outbound = <<>>

----------------------------------------------------------------------------
(* warmUp *)

reqVars == <<pc, question, res, page, events, full, prev, launches, warmFailed,
             thrown, appendOnly, upstream>>

(* setTimeout(warmUp, 5000) fires: warmUp runs to await launchBrowser() *)
WarmTimer ==
    /\ wpc = "timer"
    /\ wpc' = "launch"
    /\ UNCHANGED <<warmBrowser, warmReady, warmPage, browsers, closes, reqVars,
                   routes, outbound>>

(* warmBrowser = await launchBrowser(); then await warmBrowser.newContext() *)
WarmLaunched ==
    /\ wpc = "launch"
    /\ warmBrowser' = {WarmId}
    /\ browsers' = [browsers EXCEPT ![WarmId] = "open"]
    /\ wpc' = "newContext"
    /\ UNCHANGED <<warmReady, warmPage, closes, reqVars, routes, outbound>>

(* const ctx = await warmBrowser.newContext(); then await ctx.newPage() *)
WarmContext ==
    /\ wpc = "newContext"
    /\ wpc' = "newPage"
    /\ UNCHANGED <<warmBrowser, warmReady, warmPage, browsers, closes, reqVars,
                   routes, outbound>>

(* const page = await ctx.newPage(); then await page.route(...) *)
WarmNewPage ==
    /\ wpc = "newPage"
    /\ warmPage' = <<NewPage(WarmId, 0)>>
    /\ wpc' = "route"
    /\ UNCHANGED <<warmBrowser, warmReady, browsers, closes, reqVars,
                   routes, outbound>>

(* await page.route(...) returns; then await page.goto(ETHER_URL) *)
WarmRoute ==
    /\ wpc = "route"
    /\ routes' = [routes EXCEPT ![WarmId] = {"warmUp"}]
    /\ wpc' = "goto"
    /\ UNCHANGED <<warmBrowser, warmReady, warmPage, browsers, closes, reqVars,
                   outbound>>

(* await page.goto(...) returns: warmReady = true *)
WarmGoto ==
    /\ wpc = "goto"
    /\ warmReady' = TRUE
    /\ wpc' = "ready"
    /\ UNCHANGED <<warmBrowser, warmPage, browsers, closes, reqVars,
                   routes, outbound>>

(* Fault: the catch block schedules warmUp again. *)
WarmFailRetries ==
    /\ wpc \in {"launch", "newContext", "newPage", "route", "goto"}
    /\ warmReady' = FALSE
    /\ wpc' = "launch"
    /\ UNCHANGED <<warmBrowser, warmPage, browsers, closes, reqVars,
                   routes, outbound>>

(* any awaited call of warmUp rejects: catch (err) { warmReady = false } *)
WarmFail ==
    /\ wpc \in {"launch", "newContext", "newPage", "route", "goto"}
    /\ warmReady' = FALSE
    /\ wpc' = "failed"
    /\ UNCHANGED <<warmBrowser, warmPage, browsers, closes, reqVars,
                   routes, outbound>>

----------------------------------------------------------------------------
(* app.post("/ask") and getPage *)

globalVars == <<wpc, warmBrowser, warmReady, warmPage, browsers, closes>>

(* The browser calls of the handler between getPage and the loop, in order. *)
DriverSteps ==
    << "route", "goto", "waitForSelector.textarea", "fill",
       "waitForSelector.submit", "click", "waitFor.box" >>

(* The awaited calls whose rejection reaches the handler's catch. *)
ThrowingSteps ==
    {"launch", "newContext", "newPage", "waitForTimeout"}
        \cup {DriverSteps[i] : i \in 1..Len(DriverSteps)}

(* finally { if (page && page._tempBrowser) await close(); res.end() }:    *)
(* up to the await of close(), or to res.end() when nothing is closed.     *)
Finally(r) ==
    /\ pc' = [pc EXCEPT ![r] = IF MustClose(page[r]) THEN "close" ELSE "ended"]
    /\ res' = [res EXCEPT ![r] = IF MustClose(page[r]) THEN @ ELSE "ended"]

(* An exception with message m reaches catch (err): send error, finally. *)
Throw(r, m) ==
    /\ thrown' = [thrown EXCEPT ![r] = Append(@, m)]
    /\ events' = [events EXCEPT ![r] = @ \o CatchEvents(m)]
    /\ Finally(r)

(* Fault: getPage tests the handle alone: if (warmBrowser) *)
AskHandleOnly(r, q) ==
    /\ pc[r] = "idle"
    /\ question' = [question EXCEPT ![r] = q]
    /\ IF QuestionMissing(q)
       THEN /\ res' = [res EXCEPT ![r] = "400"]
            /\ pc' = [pc EXCEPT ![r] = "rejected"]
            /\ UNCHANGED launches
       ELSE /\ res' = [res EXCEPT ![r] = "open"]
            /\ IF warmBrowser # {}
               THEN /\ pc' = [pc EXCEPT ![r] = "warm.newContext"]
                    /\ UNCHANGED launches
               ELSE /\ pc' = [pc EXCEPT ![r] = "launch"]
                    /\ launches' = [launches EXCEPT ![r] = @ + 1]
    /\ UNCHANGED <<globalVars, page, events, scrapeVars, warmFailed, thrown, upstream,
                   routes, outbound>>

(* The request arrives: validation, SSE headers, getPage up to its first   *)
(* await (the warm browser's newContext, or launchBrowser).                *)
Ask(r, q) ==
    /\ pc[r] = "idle"
    /\ question' = [question EXCEPT ![r] = q]
    /\ IF QuestionMissing(q)
       THEN /\ res' = [res EXCEPT ![r] = "400"]
            /\ pc' = [pc EXCEPT ![r] = "rejected"]
            /\ UNCHANGED launches
       ELSE /\ res' = [res EXCEPT ![r] = "open"]
            /\ IF warmReady /\ warmBrowser # {}
               THEN /\ pc' = [pc EXCEPT ![r] = "warm.newContext"]
                    /\ UNCHANGED launches
               ELSE /\ pc' = [pc EXCEPT ![r] = "launch"]
                    /\ launches' = [launches EXCEPT ![r] = @ + 1]
    /\ UNCHANGED <<globalVars, page, events, scrapeVars, warmFailed, thrown, upstream,
                   routes, outbound>>

(* const context = await warmBrowser.newContext(); then context.newPage() *)
WarmDeriveContext(r) ==
    /\ pc[r] = "warm.newContext"
    /\ pc' = [pc EXCEPT ![r] = "warm.newPage"]
    /\ UNCHANGED <<globalVars, question, res, page, events, scrapeVars, launches,
                   warmFailed, thrown, upstream, routes, outbound>>

(* return await context.newPage(); page = ...; then await page.route(...) *)
WarmDerivePage(r) ==
    /\ pc[r] = "warm.newPage"
    /\ page' = [page EXCEPT ![r] = <<WarmPageFor(r)>>]
    /\ pc' = [pc EXCEPT ![r] = DriverSteps[1]]
    /\ UNCHANGED <<globalVars, question, res, events, scrapeVars, launches,
                   warmFailed, thrown, upstream, routes, outbound>>

(* Fault: no try/catch around the warm path: the rejection propagates. *)
WarmDeriveFailThrows(r) ==
    /\ pc[r] \in {"warm.newContext", "warm.newPage"}
    /\ Throw(r, pc[r])
    /\ UNCHANGED <<globalVars, question, page, scrapeVars, launches, warmFailed,
                   upstream, routes, outbound>>

(* Fault: the catch of the warm path writes the flag: warmReady = false *)
WarmDeriveFailResets(r) ==
    /\ pc[r] \in {"warm.newContext", "warm.newPage"}
    /\ warmReady' = FALSE
    /\ warmFailed' = [warmFailed EXCEPT ![r] = TRUE]
    /\ launches' = [launches EXCEPT ![r] = @ + 1]
    /\ pc' = [pc EXCEPT ![r] = "launch"]
    /\ UNCHANGED <<wpc, warmBrowser, warmPage, browsers, closes, question, res,
                   page, events, scrapeVars, thrown, upstream,
                   routes, outbound>>

(* newContext or newPage of the warm browser rejects: catch { log }, then  *)
(* the fallback: await launchBrowser()                                     *)
WarmDeriveFail(r) ==
    /\ pc[r] \in {"warm.newContext", "warm.newPage"}
    /\ warmFailed' = [warmFailed EXCEPT ![r] = TRUE]
    /\ launches' = [launches EXCEPT ![r] = @ + 1]
    /\ pc' = [pc EXCEPT ![r] = "launch"]
    /\ UNCHANGED <<globalVars, question, res, page, events, scrapeVars, thrown,
                   upstream, routes, outbound>>

(* const browser = await launchBrowser(); then await browser.newContext() *)
Launched(r) ==
    /\ pc[r] = "launch"
    /\ browsers' = [browsers EXCEPT ![r] = "open"]
    /\ pc' = [pc EXCEPT ![r] = "newContext"]
    /\ UNCHANGED <<warmVars, closes, question, res, page, events, scrapeVars,
                   launches, warmFailed, thrown, upstream,
                   routes, outbound>>

(* const ctx = await browser.newContext(); then await ctx.newPage() *)
FreshContext(r) ==
    /\ pc[r] = "newContext"
    /\ pc' = [pc EXCEPT ![r] = "newPage"]
    /\ UNCHANGED <<globalVars, question, res, page, events, scrapeVars, launches,
                   warmFailed, thrown, upstream, routes, outbound>>

(* const page = await ctx.newPage(); page._tempBrowser = browser; return   *)
(* page; page = ...; then await page.route(...)                            *)
FreshPage(r) ==
    /\ pc[r] = "newPage"
    /\ page' = [page EXCEPT ![r] = <<FreshPageFor(r)>>]
    /\ pc' = [pc EXCEPT ![r] = DriverSteps[1]]
    /\ UNCHANGED <<globalVars, question, res, events, scrapeVars, launches,
                   warmFailed, thrown, upstream, routes, outbound>>

(* One call of the interaction driver returns; the next is awaited.  When  *)
(* page.route returns, the handler is installed on the page.  After        *)
(* box.waitFor: let full = "", prev = "", then await box.innerText()       *)
DriverStep(r) ==
    \E i \in 1..Len(DriverSteps) :
        /\ pc[r] = DriverSteps[i]
        /\ IF i < Len(DriverSteps)
           THEN /\ pc' = [pc EXCEPT ![r] = DriverSteps[i + 1]]
                /\ UNCHANGED <<full, prev>>
           ELSE /\ pc' = [pc EXCEPT ![r] = "innerText"]
                /\ full' = [full EXCEPT ![r] = <<>>]
                /\ prev' = [prev EXCEPT ![r] = <<>>]
        /\ routes' = IF i = 1 THEN [routes EXCEPT ![r] = {"ask"}] ELSE routes
        /\ UNCHANGED <<globalVars, question, res, page, events, appendOnly,
                       launches, warmFailed, thrown, upstream, outbound>>

(* An awaited call of getPage's fallback path, of the driver, or the       *)
(* polling sleep rejects: the exception carries the call's name.           *)
StepFail(r) ==
    /\ pc[r] \in ThrowingSteps
    /\ Throw(r, pc[r])
    /\ UNCHANGED <<globalVars, question, page, scrapeVars, launches, warmFailed,
                   upstream, routes, outbound>>

(* Fault: the completion test is applied to the text just read:            *)
(* /\*\*[^*]+\*\*/.test(txt)                                               *)
PollExitOnRead(r, txt, ok) ==
    LET grew == Grows(txt, prev[r])
        delta == Delta(txt, prev[r])
        f == IF grew THEN Accumulate(full[r], delta) ELSE full[r]
        evs == IF grew THEN Append(events[r], ReasoningEv(delta)) ELSE events[r]
    IN  /\ pc[r] = "innerText"
        /\ prev' = [prev EXCEPT ![r] = IF grew THEN txt ELSE @]
        /\ full' = [full EXCEPT ![r] = f]
        /\ appendOnly' = [appendOnly EXCEPT ![r] = @ /\ (ok => IsPrefix(prev[r], txt))]
        /\ IF HasMatch(txt)
           THEN /\ events' = [events EXCEPT ![r] = evs \o SuccessEvents(f)]
                /\ Finally(r)
           ELSE /\ events' = [events EXCEPT ![r] = evs]
                /\ pc' = [pc EXCEPT ![r] = "waitForTimeout"]
                /\ UNCHANGED res
        /\ UNCHANGED <<globalVars, question, page, launches, warmFailed, thrown,
                       upstream, routes, outbound>>

(* Fault: prev = txt is outside the if: every read is recorded. *)
PollAlwaysRecords(r, txt, ok) ==
    LET grew == Grows(txt, prev[r])
        delta == Delta(txt, prev[r])
        f == IF grew THEN Accumulate(full[r], delta) ELSE full[r]
        evs == IF grew THEN Append(events[r], ReasoningEv(delta)) ELSE events[r]
    IN  /\ pc[r] = "innerText"
        /\ prev' = [prev EXCEPT ![r] = txt]
        /\ full' = [full EXCEPT ![r] = f]
        /\ appendOnly' = [appendOnly EXCEPT ![r] = @ /\ (ok => IsPrefix(prev[r], txt))]
        /\ IF HasMatch(f)
           THEN /\ events' = [events EXCEPT ![r] = evs \o SuccessEvents(f)]
                /\ Finally(r)
           ELSE /\ events' = [events EXCEPT ![r] = evs]
                /\ pc' = [pc EXCEPT ![r] = "waitForTimeout"]
                /\ UNCHANGED res
        /\ UNCHANGED <<globalVars, question, page, launches, warmFailed, thrown,
                       upstream, routes, outbound>>

(* One iteration of while (true), from the result txt of                   *)
(* box.innerText().catch(() => "") to the next await.  ok: the read did    *)
(* not fail.                                                               *)
Poll(r, txt, ok) ==
    LET grew == Grows(txt, prev[r])
        delta == Delta(txt, prev[r])
        f == IF grew THEN Accumulate(full[r], delta) ELSE full[r]
        evs == IF grew THEN Append(events[r], ReasoningEv(delta)) ELSE events[r]
    IN  /\ pc[r] = "innerText"
        /\ prev' = [prev EXCEPT ![r] = IF grew THEN txt ELSE @]
        /\ full' = [full EXCEPT ![r] = f]
        /\ appendOnly' = [appendOnly EXCEPT ![r] = @ /\ (ok => IsPrefix(prev[r], txt))]
        /\ IF HasMatch(f)
           THEN /\ events' = [events EXCEPT ![r] = evs \o SuccessEvents(f)]
                /\ Finally(r)
           ELSE /\ events' = [events EXCEPT ![r] = evs]
                /\ pc' = [pc EXCEPT ![r] = "waitForTimeout"]
                /\ UNCHANGED res
        /\ UNCHANGED <<globalVars, question, page, launches, warmFailed, thrown,
                       upstream, routes, outbound>>

(* The read returns a text the region shows. *)
Read(r, T) == \E t \in T : Poll(r, t, TRUE)

(* The read rejects: .catch(() => "") *)
ReadFail(r) == Poll(r, <<>>, FALSE)

(* await page.waitForTimeout(300) returns; then await box.innerText() *)
Sleep(r) ==
    /\ pc[r] = "waitForTimeout"
    /\ pc' = [pc EXCEPT ![r] = "innerText"]
    /\ UNCHANGED <<globalVars, question, res, page, events, scrapeVars, launches,
                   warmFailed, thrown, upstream, routes, outbound>>

(* await page._tempBrowser.close() returns; res.end() *)
Close(r) ==
    /\ pc[r] = "close"
    /\ \E b \in page[r][1].tempBrowser :
           /\ browsers' = [browsers EXCEPT ![b] = "closed"]
           /\ closes' = [closes EXCEPT ![b] = @ + 1]
    /\ res' = [res EXCEPT ![r] = "ended"]
    /\ pc' = [pc EXCEPT ![r] = "ended"]
    /\ UNCHANGED <<warmVars, question, page, events, scrapeVars, launches,
                   warmFailed, thrown, upstream, routes, outbound>>

----------------------------------------------------------------------------
(* The server: the warm-up task and the requests, interleaved at awaits. *)

Next ==
    \/ WarmTimer \/ WarmLaunched \/ WarmContext \/ WarmNewPage
    \/ WarmRoute \/ WarmGoto \/ WarmFail
    \/ \E r \in Reqs :
        \/ \E q \in Questions : Ask(r, q)
        \/ WarmDeriveContext(r) \/ WarmDerivePage(r) \/ WarmDeriveFail(r)
        \/ Launched(r) \/ FreshContext(r) \/ FreshPage(r)
        \/ DriverStep(r) \/ StepFail(r)
        \/ Read(r, SampleTexts) \/ ReadFail(r) \/ Sleep(r)
        \/ Close(r)

Spec == Init /\ [][Next]_vars

----------------------------------------------------------------------------
(* The scrape loop on every text: one request, before the warm-up timer    *)
(* fires (so getPage takes the fallback path), reading any text of Texts   *)
(* at every poll, with failed reads and failing calls.                     *)

FirstReq == CHOOSE r \in Reqs : \A s \in Reqs : r <= s

NextScrape ==
    \/ \E q \in Questions : Ask(FirstReq, q)
    \/ Launched(FirstReq) \/ FreshContext(FirstReq) \/ FreshPage(FirstReq)
    \/ DriverStep(FirstReq) \/ StepFail(FirstReq)
    \/ Read(FirstReq, Texts) \/ ReadFail(FirstReq) \/ Sleep(FirstReq)
    \/ Close(FirstReq)

SpecScrape == Init /\ [][NextScrape]_vars

----------------------------------------------------------------------------
(* Termination: one request, arriving either before the warm-up timer      *)
(* has fired or after warm-up has completed; every call of the request     *)
(* returns; the region upstream is append-only (it grows one character at  *)
(* a time while the loop polls it); reads fail at will.  The event loop    *)
(* runs every continuation whose call has returned (weak fairness of the   *)
(* request's steps); reads do not fail forever (strong fairness of the     *)
(* successful read).  Outside this specification the read draws its text   *)
(* directly and upstream stays empty.                                      *)

(* The state WarmTimer .. WarmGoto lead to, with no request arrived. *)
WarmedUp ==
    /\ wpc = "ready"
    /\ warmBrowser = {WarmId}
    /\ warmReady = TRUE
    /\ warmPage = <<NewPage(WarmId, 0)>>
    /\ browsers = [b \in BrowserIds |-> IF b = WarmId THEN "open" ELSE "none"]
    /\ closes = [b \in BrowserIds |-> 0]
    /\ pc = [r \in Reqs |-> "idle"]
    /\ question = [r \in Reqs |-> Missing]
    /\ res = [r \in Reqs |-> "none"]
    /\ page = [r \in Reqs |-> <<>>]
    /\ events = [r \in Reqs |-> <<>>]
    /\ full = [r \in Reqs |-> <<>>]
    /\ prev = [r \in Reqs |-> <<>>]
    /\ launches = [r \in Reqs |-> 0]
    /\ warmFailed = [r \in Reqs |-> FALSE]
    /\ thrown = [r \in Reqs |-> <<>>]
    /\ appendOnly = [r \in Reqs |-> TRUE]
    /\ upstream = [r \in Reqs |-> <<>>]
    /\ routes = [p \in PageIds |-> IF p = WarmId THEN {"warmUp"} ELSE {}]
    /\ outbound = <<>>

InitLive == Init \/ WarmedUp

UpstreamGrow(r) ==
    /\ pc[r] \in {"innerText", "waitForTimeout"}
    /\ Len(upstream[r]) < MaxLen
    /\ \E c \in Alphabet : upstream' = [upstream EXCEPT ![r] = Append(@, c)]
    /\ UNCHANGED <<globalVars, pc, question, res, page, events, scrapeVars,
                   launches, warmFailed, thrown, routes, outbound>>

ReadUpstream(r) == Poll(r, upstream[r], TRUE)

LiveStep(r) ==
    \/ \E q \in Questions : Ask(r, q)
    \/ WarmDeriveContext(r) \/ WarmDerivePage(r)
    \/ Launched(r) \/ FreshContext(r) \/ FreshPage(r)
    \/ DriverStep(r)
    \/ ReadUpstream(r) \/ ReadFail(r) \/ Sleep(r)
    \/ Close(r)

NextLive == LiveStep(FirstReq) \/ UpstreamGrow(FirstReq)

SpecLive ==
    /\ InitLive
    /\ [][NextLive]_vars
    /\ WF_vars(LiveStep(FirstReq))
    /\ SF_vars(ReadUpstream(FirstReq))

----------------------------------------------------------------------------
(* The resource interceptor *)

ExtPng == <<".", "p", "n", "g">>
ExtJpg == <<".", "j", "p", "g">>
ExtJpeg == <<".", "j", "p", "e", "g">>
ExtGif == <<".", "g", "i", "f">>
ExtSvg == <<".", "s", "v", "g">>
ExtWebp == <<".", "w", "e", "b", "p">>
ExtWoff == <<".", "w", "o", "f", "f">>
ExtTtf == <<".", "t", "t", "f">>
Analytics == <<"a", "n", "a", "l", "y", "t", "i", "c", "s">>
Googletag == <<"g", "o", "o", "g", "l", "e", "t", "a", "g">>
Hotjar == <<"h", "o", "t", "j", "a", "r">>

(* url.includes(x) *)
Includes(url, x) ==
    \E i \in 1..(Len(url) - Len(x) + 1) :
        \A k \in 1..Len(x) : url[i + k - 1] = x[k]

(* The handler of warmUp's page.route: the calls it makes on the route,    *)
(* in order.                                                               *)
WarmRouteHandler(url) ==
    IF \/ \E x \in {ExtPng, ExtJpg, ExtJpeg, ExtGif, ExtSvg, ExtWebp, ExtWoff, ExtTtf} :
              Includes(url, x)
       \/ Includes(url, Analytics)
       \/ Includes(url, Googletag)
       \/ Includes(url, Hotjar)
    THEN <<"abort">>
    ELSE <<"continue">>

(* Fault: the list of the request handler has lost ".svg". *)
AskRouteHandlerNoSvg(url) ==
    IF \/ \E x \in {ExtPng, ExtJpg, ExtJpeg, ExtGif, ExtWebp, ExtWoff, ExtTtf} :
              Includes(url, x)
       \/ Includes(url, Analytics)
       \/ Includes(url, Googletag)
       \/ Includes(url, Hotjar)
    THEN <<"abort">>
    ELSE <<"continue">>

(* The handler of the request's page.route: the calls it makes on the      *)
(* route, in order.                                                        *)
AskRouteHandler(url) ==
    IF \/ \E x \in {ExtPng, ExtJpg, ExtJpeg, ExtGif, ExtSvg, ExtWebp, ExtWoff, ExtTtf} :
              Includes(url, x)
       \/ Includes(url, Analytics)
       \/ Includes(url, Googletag)
       \/ Includes(url, Hotjar)
    THEN <<"abort">>
    ELSE <<"continue">>

(* The handler installed under the name h. *)
RouteHandler(h, url) ==
    IF h = "warmUp" THEN WarmRouteHandler(url) ELSE AskRouteHandler(url)

(* What happens to a request for url issued by page p: the calls of the    *)
(* installed handler; none when no handler is installed.                   *)
Intercept(p, url) ==
    IF routes[p] = {} THEN <<>>
    ELSE RouteHandler(CHOOSE h \in routes[p] : TRUE, url)

(* The addresses: up to MaxParts pieces, among them every blocked          *)
(* substring, a blocked substring cut in two, and plain text.              *)
MaxParts == 2

UrlParts ==
    { <<"a">>, <<".", "p", "n">>, <<"g">>,
      ExtPng, ExtJpg, ExtJpeg, ExtGif, ExtSvg, ExtWebp, ExtWoff, ExtTtf,
      Analytics, Googletag, Hotjar }

(* An address is chosen piece by piece: MaxParts pieces, each a part or    *)
(* nothing.                                                                *)
UrlChoices == [1..MaxParts -> UrlParts \cup {<<>>}]

RECURSIVE Joined(_, _)
Joined(f, n) == IF n = 0 THEN <<>> ELSE Joined(f, n - 1) \o f[n]

UrlOf(f) == Joined(f, MaxParts)

(* The calls after which a page has started its navigation: a page issues  *)
(* outbound requests from page.goto on.                                    *)
NavigatedSteps ==
    {DriverSteps[i] : i \in 2..Len(DriverSteps)} \cup {"innerText", "waitForTimeout"}

Navigating(p) ==
    IF p = WarmId THEN wpc \in {"goto", "ready"} ELSE pc[p] \in NavigatedSteps

(* Page p issues a request for an address: the browser calls the route     *)
(* handler.                                                                *)
(* (One intercepted request is outstanding at a time.)                     *)
Fetch(p) ==
    /\ Navigating(p)
    /\ outbound = <<>>
    /\ \E f \in UrlChoices :
           outbound' = <<[page |-> p, url |-> UrlOf(f),
                          calls |-> Intercept(p, UrlOf(f))]>>
    /\ UNCHANGED <<globalVars, reqVars, routes>>

(* The browser has carried out the handler's call: the request is over. *)
Settle ==
    /\ outbound # <<>>
    /\ outbound' = <<>>
    /\ UNCHANGED <<globalVars, reqVars, routes>>

(* One request and the warm-up task, every call returning, the region      *)
(* staying empty, and the pages issuing requests for every address.        *)
RouteStep(r) ==
    \/ \E q \in Questions : Ask(r, q)
    \/ WarmDeriveContext(r) \/ WarmDerivePage(r)
    \/ Launched(r) \/ FreshContext(r) \/ FreshPage(r)
    \/ DriverStep(r)
    \/ ReadFail(r) \/ Sleep(r)

NextRoute ==
    \/ WarmTimer \/ WarmLaunched \/ WarmContext \/ WarmNewPage
    \/ WarmRoute \/ WarmGoto
    \/ RouteStep(FirstReq)
    \/ \E p \in {WarmId, FirstReq} : Fetch(p)
    \/ Settle

SpecRoute == Init /\ [][NextRoute]_vars

----------------------------------------------------------------------------
(* Extraction: one request, every call returning, polling a region that    *)
(* grows by one character of plain text, asterisk, blank or ">" at a time  *)
(* (the read may come after several characters).                           *)

MaxExtractLen == 6  \* longest text the region shows in this specification

ExtractAlphabet == Alphabet \cup Whitespace \cup {">"}

RegionGrow(r) ==
    /\ pc[r] \in {"innerText", "waitForTimeout"}
    /\ Len(upstream[r]) < MaxExtractLen
    /\ \E c \in ExtractAlphabet : upstream' = [upstream EXCEPT ![r] = Append(@, c)]
    /\ UNCHANGED <<globalVars, pc, question, res, page, events, scrapeVars,
                   launches, warmFailed, thrown, routes, outbound>>

NextExtract == LiveStep(FirstReq) \/ RegionGrow(FirstReq)

SpecExtract == InitLive /\ [][NextExtract]_vars

----------------------------------------------------------------------------
(* Properties *)

EventIdx(r) == 1..Len(events[r])
Count(r, ty) == Cardinality({i \in EventIdx(r) : events[r][i].type = ty})
LastType(r) == IF events[r] = <<>> THEN "none" ELSE events[r][Len(events[r])].type

Accepted(r) == pc[r] \notin {"idle", "rejected"}
Shared(r) == page[r] # <<>> /\ page[r][1].tempBrowser = {}
Owned(r) == page[r] # <<>> /\ page[r][1].tempBrowser # {}

(* The concatenation of the reasoning deltas of a stream, in order. *)
RECURSIVE ReasoningText(_)
ReasoningText(evs) ==
    IF evs = <<>> THEN <<>>
    ELSE (IF Head(evs).type = "reasoning" THEN Head(evs).content ELSE <<>>)
         \o ReasoningText(Tail(evs))

(* C1 (as claimed): when the stream of an accepted request has been ended, *)
(* its last event is done, exactly one done was written, and every error   *)
(* event is immediately followed by done.                                  *)
C1_DoneAlwaysLast ==
    \A r \in Reqs :
        (Accepted(r) /\ res[r] = "ended") =>
            /\ LastType(r) = "done"
            /\ Count(r, "done") = 1
            /\ \A i \in EventIdx(r) :
                   events[r][i].type = "error" =>
                       /\ i + 1 <= Len(events[r])
                       /\ events[r][i + 1].type = "done"

(* C2: in every stream, at every moment of every interleaving, reasoning   *)
(* events come first, then one answer, then at most one structure (right   *)
(* after the answer), then done: no reasoning after answer, no structure   *)
(* without an answer before it, no done without its answer, nothing after  *)
(* done.                                                                   *)
TypeBefore(r, j) == IF j = 1 THEN "start" ELSE events[r][j - 1].type

C2_EventOrder ==
    \A r \in Reqs :
        \A j \in EventIdx(r) :
            LET ty == events[r][j].type
                before == TypeBefore(r, j)
            IN  /\ ty = "reasoning" => before \in {"start", "reasoning"}
                /\ ty = "answer" => before \in {"start", "reasoning"}
                /\ ty = "structure" => before = "answer"
                /\ ty = "done" => (before \in {"answer", "structure"} /\ j = Len(events[r]))

(* Both requests streamed: one has written reasoning, answer, structure    *)
(* and done while the other is still polling with reasoning written.       *)
C2_Witness ==
    \E r1, r2 \in Reqs :
        /\ r1 # r2
        /\ Count(r1, "reasoning") >= 1 /\ Count(r1, "structure") = 1
        /\ LastType(r1) = "done"
        /\ pc[r2] = "waitForTimeout" /\ Count(r2, "reasoning") >= 1

(* C3: the reasoning deltas written so far, concatenated in order, are    *)
(* the accumulated text full, after any polls; and when every successful   *)
(* read extended the recorded text, the poll that ends the loop leaves     *)
(* full equal to the text it read.                                         *)
C3_DeltasReproduceFull ==
    \A r \in Reqs : ReasoningText(events[r]) = full[r]

C3_ExitStep(r) == pc[r] = "innerText" /\ pc'[r] \in {"close", "ended"}

C3_Lossless ==
    /\ []C3_DeltasReproduceFull
    /\ [][\A r \in Reqs :
             (C3_ExitStep(r) /\ appendOnly'[r]) =>
                 \A t \in Texts : Poll(r, t, TRUE) => full'[r] = t]_vars

(* The loop has ended after several deltas of an append-only region. *)
C3_Witness ==
    \E r \in Reqs :
        /\ LastType(r) = "done"
        /\ appendOnly[r]
        /\ Count(r, "reasoning") >= 3

(* C4: no reasoning event carries empty content, whatever the polls read.  *)
C4_NoEmptyDelta ==
    \A r \in Reqs :
        \A i \in EventIdx(r) :
            events[r][i].type = "reasoning" => Len(events[r][i].content) >= 1

(* Deltas were written although some read did not extend the recorded     *)
(* text, and the loop is still polling.                                    *)
C4_Witness ==
    \E r \in Reqs :
        /\ pc[r] = "waitForTimeout"
        /\ ~appendOnly[r]
        /\ Count(r, "reasoning") >= 2

(* C5: a request whose question is missing, empty or blank is rejected     *)
(* with status 400: no headers of a stream, no event, no page, no browser  *)
(* launched, and the step that rejects it leaves the warm instance and     *)
(* every browser as they were.                                             *)
IsBlank(q) == q = Missing \/ \A i \in 1..Len(q) : q[i] \in Whitespace

C5_RejectedState ==
    \A r \in Reqs :
        /\ (pc[r] # "idle" /\ IsBlank(question[r])) => pc[r] = "rejected"
        /\ pc[r] = "rejected" =>
               /\ res[r] = "400"
               /\ events[r] = <<>>
               /\ page[r] = <<>>
               /\ launches[r] = 0
               /\ ~warmFailed[r]
               /\ browsers[r] = "none"

C5_Rejects ==
    /\ []C5_RejectedState
    /\ [][\A r \in Reqs :
             (pc[r] = "idle" /\ pc'[r] = "rejected") => UNCHANGED globalVars]_vars

(* A blank question was rejected while the warm instance was ready. *)
C5_Witness ==
    \E r \in Reqs :
        /\ pc[r] = "rejected"
        /\ question[r] = <<" ">>
        /\ warmReady

(* C6: cleanup closes a browser exactly when the session is owned: once    *)
(* the stream of a request with an owned session is ended its browser has  *)
(* been closed exactly once, on every path; no other browser is ever       *)
(* closed, and the warm browser is never closed.                           *)
C6_ClosesOwnedOnly ==
    /\ closes[WarmId] = 0
    /\ browsers[WarmId] # "closed"
    /\ \A r \in Reqs :
        /\ closes[r] <= 1
        /\ (res[r] = "ended" /\ Owned(r)) => (closes[r] = 1 /\ browsers[r] = "closed")
        /\ closes[r] >= 1 => (Owned(r) /\ res[r] = "ended")
        /\ Shared(r) => closes[r] = 0

(* One request ended on a failure path with its own browser closed, and    *)
(* another ended with a shared session, the warm browser still open.       *)
C6_Witness ==
    \E r1, r2 \in Reqs :
        /\ res[r1] = "ended" /\ Owned(r1) /\ thrown[r1] # <<>> /\ closes[r1] = 1
        /\ res[r2] = "ended" /\ Shared(r2) /\ LastType(r2) = "done"
        /\ browsers[WarmId] = "open"

(* C7: the page of a request lives in a context made by that request's     *)
(* own getPage call; no two requests hold the same context, and none       *)
(* holds the context of the warm-up page.                                  *)
C7_DistinctSessions ==
    /\ \A r \in Reqs :
           page[r] # <<>> =>
               /\ page[r][1].ctx.by = r
               /\ warmPage # <<>> => page[r][1].ctx # warmPage[1].ctx
    /\ \A r1, r2 \in Reqs :
           (r1 # r2 /\ page[r1] # <<>> /\ page[r2] # <<>>)
               => page[r1][1].ctx # page[r2][1].ctx

(* Two requests in flight at once, both on pages of the warm browser. *)
C7_Witness ==
    \E r1, r2 \in Reqs :
        /\ r1 # r2
        /\ Shared(r1) /\ Shared(r2)
        /\ pc[r1] = "innerText" /\ pc[r2] = "goto"

(* C8: an exception in the pipeline of a request is written as exactly one *)
(* error event with the exception's message, and that event is the last    *)
(* event of the stream (no reasoning, answer or structure follows); the    *)
(* step that raises it changes nothing of any other request.               *)
C8_ErrorState ==
    \A r \in Reqs :
        /\ Len(thrown[r]) <= 1
        /\ Count(r, "error") = Len(thrown[r])
        /\ thrown[r] # <<>> =>
               events[r][Len(events[r])] = ErrorEv(thrown[r][1])

ReqState(s) ==
    << pc[s], question[s], res[s], page[s], events[s], full[s], prev[s],
       launches[s], warmFailed[s], thrown[s], browsers[s], closes[s] >>

C8_ErrorSurfaced ==
    /\ []C8_ErrorState
    /\ [][\A r \in Reqs :
             thrown'[r] # thrown[r] =>
                 \A s \in Reqs \ {r} : ReqState(s)' = ReqState(s)]_vars

(* The polling sleep of one request failed after it had written deltas,    *)
(* while another request is polling with deltas written.                   *)
C8_Witness ==
    \E r1, r2 \in Reqs :
        /\ r1 # r2
        /\ thrown[r1] = <<"waitForTimeout">> /\ Count(r1, "reasoning") >= 1
        /\ pc[r2] = "innerText" /\ Count(r2, "reasoning") >= 1

(* C9: getPage launches at most one browser.  A shared session comes with  *)
(* no launch; an owned one with exactly one; after a warm-reuse failure,   *)
(* or with no ready warm instance, exactly one launch is made.  No error   *)
(* event carries a warm-reuse failure; an error with no page acquired      *)
(* comes from the one fresh launch path.                                   *)
FreshPathSteps == {"launch", "newContext", "newPage"}

C9_SingleFallback ==
    \A r \in Reqs :
        /\ launches[r] <= 1
        /\ Shared(r) => (launches[r] = 0 /\ ~warmFailed[r])
        /\ Owned(r) => launches[r] = 1
        /\ warmFailed[r] => launches[r] = 1
        /\ (Accepted(r) /\ ~Shared(r) /\ pc[r] \notin {"warm.newContext", "warm.newPage"})
               => launches[r] = 1
        /\ \A i \in 1..Len(thrown[r]) :
               thrown[r][i] \notin {"warm.newContext", "warm.newPage"}
        /\ (thrown[r] # <<>> /\ page[r] = <<>>) =>
               (thrown[r][1] \in FreshPathSteps /\ launches[r] = 1)

(* A warm-reuse failure was recovered: the request ran on a fallback       *)
(* browser to done, with no error event.                                   *)
C9_Witness ==
    \E r \in Reqs :
        /\ warmFailed[r] /\ Owned(r)
        /\ LastType(r) = "done" /\ Count(r, "error") = 0

(* C10: with every call of the request returning, the region append-only   *)
(* and reads not failing forever, once the region shows a token the        *)
(* request leaves the loop, writes done and ends its stream.               *)
C10_Terminates ==
    HasMatch(upstream[FirstReq])
        ~> (res[FirstReq] = "ended" /\ LastType(FirstReq) = "done")

(* The stream ended with done after the token arrived in several deltas. *)
C10_Witness ==
    \E r \in Reqs :
        /\ res[r] = "ended" /\ LastType(r) = "done"
        /\ Count(r, "reasoning") >= 2
        /\ HasMatch(upstream[r])

(* C11 (as claimed): when the accumulated text at the end of the loop has  *)
(* a match, the answer carries the text enclosed by the first match,       *)
(* trimmed, and a structure event with that same text follows it; the      *)
(* "No SMILES found" answer is written only when there is no match.        *)
C11_ExtractsFirstMatch ==
    \A r \in Reqs :
        \A i \in EventIdx(r) :
            events[r][i].type = "answer" =>
                /\ HasMatch(full[r]) =>
                       /\ events[r][i].content = Trim(MatchGroup(full[r]))
                       /\ i + 1 <= Len(events[r])
                       /\ events[r][i + 1].type = "structure"
                       /\ events[r][i + 1].smiles = Trim(MatchGroup(full[r]))
                /\ events[r][i].content = NoSmilesFound => ~HasMatch(full[r])

(* C12 (as claimed): the fragment of a structure event has an svg element  *)
(* and no img element when the value contains ">", and an img element and  *)
(* no svg element when it does not.                                        *)
Contains(s, c) == \E k \in 1..Len(s) : s[k] = c

FragmentElements(html) == {html.elements[k] : k \in 1..Len(html.elements)}

C12_FragmentBranches ==
    \A r \in Reqs :
        \A i \in EventIdx(r) :
            events[r][i].type = "structure" =>
                LET els == FragmentElements(events[r][i].html)
                IN  IF Contains(events[r][i].smiles, ">")
                    THEN "svg" \in els /\ "img" \notin els
                    ELSE "img" \in els /\ "svg" \notin els

(* C13 (as claimed): a request leaves the scrape loop only with a match in *)
(* the accumulated text (so, with a region that never yields a match, the  *)
(* loop is never left and the stream never ended).                         *)
InLoop(r) == pc[r] \in {"innerText", "waitForTimeout"}

C13_ExitsSolelyOnMatch ==
    [][\A r \in Reqs :
          (InLoop(r) /\ pc'[r] \notin {"innerText", "waitForTimeout"})
              => HasMatch(full'[r])]_vars

(* C13 (amended): a poll either goes to the sleep or ends the loop with a  *)
(* match in the accumulated text and done written; while the request is    *)
(* in the loop the accumulated text has no match; the sleep goes back to   *)
(* the read unless it throws, which writes error and no answer or done;    *)
(* an answer or a done is never in a stream whose accumulated text has no  *)
(* match.                                                                  *)
C13_AnswerNeedsMatch ==
    \A r \in Reqs :
        /\ (Count(r, "answer") >= 1 \/ Count(r, "done") >= 1) => HasMatch(full[r])
        /\ InLoop(r) => ~HasMatch(full[r])

C13_ExitsOnMatchOrThrow ==
    /\ []C13_AnswerNeedsMatch
    /\ [][\A r \in Reqs :
             /\ (pc[r] = "innerText" /\ pc'[r] # pc[r]) =>
                    IF pc'[r] = "waitForTimeout"
                    THEN res'[r] = res[r]
                    ELSE /\ pc'[r] \in {"close", "ended"}
                         /\ HasMatch(full'[r])
                         /\ events'[r][Len(events'[r])].type = "done"
                         /\ thrown'[r] = thrown[r]
             /\ (pc[r] = "waitForTimeout" /\ pc'[r] # pc[r]) =>
                    \/ pc'[r] = "innerText" /\ events'[r] = events[r]
                    \/ /\ thrown'[r] # thrown[r]
                       /\ events'[r][Len(events'[r])].type = "error"
                       /\ Count(r, "answer") = 0 /\ Count(r, "done") = 0]_vars

(* The sleep threw after several deltas with no match: the stream ended    *)
(* with neither answer nor done.                                           *)
C13_Witness ==
    \E r \in Reqs :
        /\ res[r] = "ended"
        /\ thrown[r] = <<"waitForTimeout">>
        /\ ~HasMatch(full[r])
        /\ Count(r, "reasoning") >= 2
        /\ Count(r, "answer") = 0

(* C14: a poll whose read fails, is empty, or is not longer than the       *)
(* recorded text writes no event, raises no error, leaves full and prev    *)
(* as they were and goes on to the sleep; the length of full never         *)
(* decreases and is the length of prev in every reachable state.           *)
C14_SameLength == \A r \in Reqs : Len(full[r]) = Len(prev[r])

C14_NoOp(r) ==
    /\ events'[r] = events[r]
    /\ thrown'[r] = thrown[r]
    /\ full'[r] = full[r]
    /\ prev'[r] = prev[r]
    /\ pc'[r] = "waitForTimeout"
    /\ res'[r] = res[r]

(* The step is the poll of a read that returned t, a text that is not     *)
(* empty and longer than the recorded one.                                 *)
C14_LongerRead(r, t) ==
    /\ t # <<>>
    /\ Len(t) > Len(prev[r])
    /\ Poll(r, t, TRUE)

(* Every read, of every text and failed, is a step of the specification:   *)
(* each poll step is a no-op unless it is the poll of a longer text, which *)
(* is then the recorded text.                                              *)
C14_NoOpPoll ==
    /\ []C14_SameLength
    /\ [][\A r \in Reqs :
             /\ Len(full'[r]) >= Len(full[r])
             /\ (pc[r] = "innerText" /\ pc'[r] # pc[r]) =>
                    (C14_NoOp(r) \/ C14_LongerRead(r, prev'[r]))]_vars

(* The loop is polling after a read that did not extend the recorded text  *)
(* left full and prev equal.                                               *)
C14_Witness ==
    \E r \in Reqs :
        /\ pc[r] = "waitForTimeout"
        /\ ~appendOnly[r]
        /\ full[r] = prev[r]
        /\ Len(full[r]) >= 2

(* C15: a request whose getPage runs before warm-up has completed (timer   *)
(* not fired, warm-up launching or navigating, handle set but readiness    *)
(* false) goes to launchBrowser, stays on the fresh path and gets an owned *)
(* session; while warm-up has not completed no request derives from, or    *)
(* holds a page of, the warm browser.                                      *)
WarmPathSteps == {"warm.newContext", "warm.newPage"}

C15_NoWarmUseBeforeReady ==
    \A r \in Reqs :
        /\ pc[r] \in WarmPathSteps => (wpc = "ready" /\ launches[r] = 0)
        /\ Shared(r) => wpc = "ready"
        /\ (launches[r] = 1 /\ page[r] # <<>>) =>
               (Owned(r) /\ page[r][1].ctx.browser # WarmId)

C15_NotReadyTakesFallback ==
    /\ []C15_NoWarmUseBeforeReady
    /\ [][\A r \in Reqs :
             /\ (pc[r] = "idle" /\ pc'[r] \notin {"idle", "rejected"} /\ wpc # "ready")
                    => (pc'[r] = "launch" /\ launches'[r] = 1)
             /\ (pc[r] \in FreshPathSteps /\ pc'[r] # pc[r]) =>
                    \/ pc'[r] \in FreshPathSteps
                    \/ pc'[r] = DriverSteps[1] /\ page'[r] = <<FreshPageFor(r)>>
                    \/ thrown'[r] # thrown[r]]_vars

(* A request holds an owned session while warm-up is navigating: the warm  *)
(* handle is set and readiness is still false.                             *)
C15_Witness ==
    \E r \in Reqs :
        /\ wpc = "goto" /\ warmBrowser # {} /\ ~warmReady
        /\ Owned(r) /\ launches[r] = 1 /\ ~warmFailed[r]

(* C16: warm-up runs once and is not retried: its steps go launch,         *)
(* context, page, interceptor, navigation in that order, each once, and    *)
(* end in ready or failed; readiness becomes true only when the navigation *)
(* returns; a failing step leaves readiness false and changes nothing of   *)
(* any request; readiness true implies the handle is set.                  *)
WarmOrder ==
    << "timer", "launch", "newContext", "newPage", "route", "goto", "ready" >>

WarmSucc(a, b) == \E i \in 1..(Len(WarmOrder) - 1) : WarmOrder[i] = a /\ WarmOrder[i + 1] = b

C16_ReadyState ==
    /\ warmReady => (wpc = "ready" /\ warmBrowser # {} /\ warmPage # <<>>
                        /\ browsers[WarmId] = "open"
                        /\ routes[WarmId] = {"warmUp"})
    /\ wpc = "failed" => ~warmReady
    /\ wpc = "ready" => warmReady

C16_WarmUpOnce ==
    /\ []C16_ReadyState
    /\ [][wpc' # wpc =>
             /\ \/ WarmSucc(wpc, wpc')
                \/ wpc' = "failed" /\ wpc \notin {"timer", "ready", "failed"}
             /\ (warmReady' # warmReady) => (wpc = "goto" /\ wpc' = "ready")
             /\ UNCHANGED reqVars]_vars

(* Warm-up failed at the navigation (handle set, readiness false) and a    *)
(* request was afterwards served to done on its own browser.               *)
C16_Witness ==
    \E r \in Reqs :
        /\ wpc = "failed" /\ warmBrowser # {} /\ warmPage # <<>> /\ ~warmReady
        /\ Owned(r) /\ LastType(r) = "done" /\ res[r] = "ended"

(* C17 (as claimed): once getPage has caught a warm-reuse failure the      *)
(* readiness flag is false.                                                *)
C17_ReuseFailureClearsReady ==
    \A r \in Reqs : warmFailed[r] => ~warmReady

(* C18: warmReady and warmBrowser change only in steps of the warm-up task *)
(* (which change nothing of a request); a step that changes anything of a  *)
(* request leaves both as they were; the handle is assigned at most once;  *)
(* readiness, once true, stays true.                                       *)
C18_FlagsWrittenByWarmUpOnly ==
    [][/\ (warmReady' # warmReady \/ warmBrowser' # warmBrowser) =>
              (wpc' # wpc /\ UNCHANGED reqVars)
       /\ \A r \in Reqs :
              ReqState(r)' # ReqState(r) =>
                  (warmReady' = warmReady /\ warmBrowser' = warmBrowser)
       /\ warmBrowser' # warmBrowser => (warmBrowser = {} /\ warmBrowser' # {})
       /\ warmReady => warmReady']_vars

(* A request's warm reuse failed and it ended on a fallback browser, while *)
(* another request holds a page of the warm browser: the flags are as the  *)
(* warm-up task left them.                                                 *)
C18_Witness ==
    \E r1, r2 \in Reqs :
        /\ warmFailed[r1] /\ res[r1] = "ended" /\ closes[r1] = 1
        /\ Shared(r2)
        /\ warmReady /\ warmBrowser = {WarmId}

(* C19: every intercepted request gets exactly one call, abort or          *)
(* continue; it is abort exactly when the address contains one of the      *)
(* blocked extensions or tracking words; the call is the one either        *)
(* handler makes for that address, whichever page issued the request;      *)
(* intercepting changes nothing else; and a page that has started its      *)
(* navigation has its handler installed (the step that starts page.goto    *)
(* is the one where page.route returned).                                  *)
BlockedSubstrings ==
    { ExtPng, ExtJpg, ExtJpeg, ExtGif, ExtSvg, ExtWebp, ExtWoff, ExtTtf,
      Analytics, Googletag, Hotjar }

C19_Blocked(url) == \E x \in BlockedSubstrings : Includes(url, x)

C19_Decision ==
    outbound # <<>> =>
        LET o == outbound[1]
        IN  /\ Len(o.calls) = 1
            /\ o.calls[1] \in {"abort", "continue"}
            /\ o.calls[1] = "abort" <=> C19_Blocked(o.url)
            /\ o.calls = WarmRouteHandler(o.url)
            /\ o.calls = AskRouteHandler(o.url)

C19_Installed ==
    /\ Navigating(WarmId) => routes[WarmId] = {"warmUp"}
    /\ \A r \in Reqs :
           /\ Navigating(r) => routes[r] = {"ask"}
           /\ pc[r] = DriverSteps[1] => routes[r] = {}

C19_Interceptor ==
    /\ []C19_Decision
    /\ []C19_Installed
    /\ [][/\ outbound' # outbound => UNCHANGED <<globalVars, reqVars, routes>>
          /\ \A r \in Reqs :
                 (pc'[r] = "goto" /\ pc[r] # "goto") =>
                     (pc[r] = "route" /\ routes'[r] = {"ask"})]_vars

(* A request page asked for an address that holds ".png" and nothing else  *)
(* blocked, and the request was aborted.                                   *)
C19_Witness ==
    /\ outbound # <<>>
    /\ outbound[1].page \in Reqs
    /\ outbound[1].url = <<"a">> \o ExtPng
    /\ outbound[1].calls = <<"abort">>

(* C20 (as claimed): when the stream of a request is ended, the browser    *)
(* its fallback path launched is not open: it was closed, whichever call   *)
(* failed after the launch.                                                *)
C20_FallbackBrowserClosed ==
    \A r \in Reqs : res[r] = "ended" => browsers[r] # "open"

====
